---- MODULE Spec2Model ----
(***************************************************************************)
(* Agent runtime demo: the task table, the artifact directory and the two  *)
(* heuristics of server.py, with the HTTP handlers run by concurrent       *)
(* worker threads (FastAPI runs plain `def` handlers in a thread pool).    *)
(* Texts are sequences of one-character strings.                           *)
(***************************************************************************)
EXTENDS Integers, Sequences, FiniteSets, TLC

\* ------------------------------------------------------------------ bounds
NumClients == 2
NumIds == 2
MaxSubmits == 2
MaxFrags == 2

\* --------------------------------------------------------------- registry
CAPABILITIES ==
  << [name |-> "code_quality",
      description |-> "Analyze Python code for rough issues (TODOs, long lines, missing docstrings).",
      inputs_schema |-> [code |-> "str", filename |-> "str"],
      policy |-> "safe-readonly"],
     [name |-> "summarize_code",
      description |-> "Summarize the purpose of a Python file (heuristic).",
      inputs_schema |-> [code |-> "str", filename |-> "str"],
      policy |-> "safe-readonly"] >>

\* ------------------------------------------------------------ text helpers
\* the Python string of a text: its characters, concatenated
RECURSIVE Str(_)
Str(text) == IF text = <<>> THEN "" ELSE Head(text) \o Str(Tail(text))

SpaceChars == {" ", "\t", "\n", "\r", "\f"}
WordChars ==
  {"a","b","c","d","e","f","g","h","i","j","k","l","m","n","o","p","q","r",
   "s","t","u","v","w","x","y","z","A","B","C","D","E","F","G","H","I","J",
   "K","L","M","N","O","P","Q","R","S","T","U","V","W","X","Y","Z",
   "0","1","2","3","4","5","6","7","8","9","_"}
\* character classes of the patterns: \s, \w and . (anything but a newline)
IsSpace == [negated |-> FALSE, chars |-> SpaceChars]
IsWord == [negated |-> FALSE, chars |-> WordChars]
NotNewline == [negated |-> TRUE, chars |-> {"\n"}]
InClass(ch, cls) == (ch \in cls.chars) # cls.negated

\* str.splitlines(): a line ends at \n, \r or \r\n; no empty last line.
\* The positions where a line break ends, and how long that break is
BreakEnds(code) ==
  {i \in 1..Len(code) :
     \/ code[i] = "\n"
     \/ code[i] = "\r" /\ (i = Len(code) \/ code[i + 1] # "\n")}

BreakLen(code, e) == IF code[e] = "\n" /\ e > 1 /\ code[e - 1] = "\r" THEN 2 ELSE 1

splitlines(code) ==
  LET ends == BreakEnds(code)
      n == Cardinality(ends)
      EndOf(k) == CHOOSE e \in ends : Cardinality({x \in ends : x <= e}) = k
      StartOf(k) == IF k = 1 THEN 1 ELSE EndOf(k - 1) + 1
      total == IF StartOf(n + 1) <= Len(code) THEN n + 1 ELSE n
  IN  [k \in 1..total |->
         IF k <= n THEN SubSeq(code, StartOf(k), EndOf(k) - BreakLen(code, EndOf(k)))
         ELSE SubSeq(code, StartOf(k), Len(code))]

\* `sub in line` for texts
Contains(line, sub) ==
  \E i \in 1..(Len(line) - Len(sub) + 1) : SubSeq(line, i, i + Len(sub) - 1) = sub

\* ------------------------------------------------- regular expressions
\* A pattern is run as a set of positions (1-based, the position of the next
\* character to read) that one pattern element maps to the next set.
LineStarts(code) == {p \in 1..(Len(code) + 1) : p = 1 \/ code[p - 1] = "\n"}

ReStar(code, S, cls) ==
  {q \in 1..(Len(code) + 1) :
     \E p \in S : p <= q /\ \A k \in p..(q - 1) : InClass(code[k], cls)}

RePlus(code, S, cls) ==
  {q \in 1..(Len(code) + 1) :
     \E p \in S : p < q /\ \A k \in p..(q - 1) : InClass(code[k], cls)}

ReLit(code, S, lit) ==
  {p + Len(lit) : p \in {p \in S : /\ p + Len(lit) - 1 <= Len(code)
                                   /\ SubSeq(code, p, p + Len(lit) - 1) = lit}}

HasDocstringDef_BlanksOnly(code) ==
  LET blank == [negated |-> FALSE, chars |-> {" ", "\t"}]
      s0 == LineStarts(code)
      s1 == ReStar(code, s0, blank)
      s2 == ReLit(code, s1, <<"d", "e", "f">>)
      s3 == RePlus(code, s2, blank)
      s4 == RePlus(code, s3, IsWord)
      s5 == ReLit(code, s4, <<"(">>)
      s6 == ReStar(code, s5, NotNewline)
      s7 == ReLit(code, s6, <<")", ":", "\n">>)
      s8 == RePlus(code, s7, blank)
      s9 == ReLit(code, s8, <<"\"", "\"", "\"">>)
  IN  s9 # {}

\* re.search(r'^\s*def\s+\w+\(.*\):\n\s+"""', code, flags=re.M)
HasDocstringDef(code) ==
  LET s0 == LineStarts(code)
      s1 == ReStar(code, s0, IsSpace)
      s2 == ReLit(code, s1, <<"d", "e", "f">>)
      s3 == RePlus(code, s2, IsSpace)
      s4 == RePlus(code, s3, IsWord)
      s5 == ReLit(code, s4, <<"(">>)
      s6 == ReStar(code, s5, NotNewline)
      s7 == ReLit(code, s6, <<")", ":", "\n">>)
      s8 == RePlus(code, s7, IsSpace)
      s9 == ReLit(code, s8, <<"\"", "\"", "\"">>)
  IN  s9 # {}

\* One match of r'^\s*def\s+(\w+)\(' that starts at position p: the end
\* positions after `def\s+` (s3) and after the name (s4); the name is the
\* maximal run of word characters, since "(" is not one.
DefMatchAt(code, p) ==
  LET s1 == ReStar(code, {p}, IsSpace)
      s2 == ReLit(code, s1, <<"d", "e", "f">>)
      s3 == RePlus(code, s2, IsSpace)
      s4 == RePlus(code, s3, IsWord)
      ends == {q \in s4 : q <= Len(code) /\ code[q] = "("}
  IN  IF ends = {} THEN [found |-> FALSE, from |-> 0, to |-> 0]
      ELSE LET e == CHOOSE q \in ends : TRUE
               b == CHOOSE q \in s3 : q < e /\ \A k \in q..(e - 1) : InClass(code[k], IsWord)
           IN  [found |-> TRUE, from |-> b, to |-> e]

\* re.findall(r'^\s*def\s+(\w+)\(', code, flags=re.M): leftmost matches,
\* not overlapping, the captured names in order
RECURSIVE FindDefsFrom(_, _, _)
FindDefsFrom(code, pos, acc) ==
  LET starts == {p \in LineStarts(code) : p >= pos /\ DefMatchAt(code, p).found}
  IN  IF starts = {} THEN acc
      ELSE LET p == CHOOSE q \in starts : \A r \in starts : q <= r
               m == DefMatchAt(code, p)
           IN  FindDefsFrom(code, m.to + 1, Append(acc, SubSeq(code, m.from, m.to - 1)))

RECURSIVE Dedup(_)
Dedup(seq) ==
  IF seq = <<>> THEN <<>>
  ELSE LET front == Dedup(SubSeq(seq, 1, Len(seq) - 1))
           last == seq[Len(seq)]
       IN  IF \E i \in DOMAIN front : front[i] = last THEN front ELSE Append(front, last)

FindDefs_Dedup(code) == Dedup(FindDefsFrom(code, 1, <<>>))

FindDefs(code) == FindDefsFrom(code, 1, <<>>)

\* ---------------------------------------------------------------- values
\* A JSON value of a request carries its JSON type
JStr(text) == [type |-> "str", val |-> text]
JInt(n) == [type |-> "int", val |-> n]

\* dict.get(key, default)
DictGet(d, key, default) == IF key \in DOMAIN d THEN d[key] ELSE default

\* Optional[...] = None
None == [null |-> TRUE]

\* json.dumps of a str: quoted, with " \ and newline escaped
RECURSIVE JsonEscape(_)
JsonEscape(text) ==
  IF text = <<>> THEN ""
  ELSE (CASE Head(text) = "\"" -> "\\\""
          [] Head(text) = "\\" -> "\\\\"
          [] Head(text) = "\n" -> "\\n"
          [] OTHER -> Head(text)) \o JsonEscape(Tail(text))

JsonValue(v) == IF v.type = "str" THEN "\"" \o JsonEscape(v.val) \o "\""
                ELSE ToString(v.val)

\* the issues list of the report under indent=2, nested at depth 1
RECURSIVE JsonIssueItems(_)
JsonIssueItems(issues) ==
  IF issues = <<>> THEN ""
  ELSE "    {\n      \"line\": " \o ToString(Head(issues).line)
       \o ",\n      \"message\": \"" \o Head(issues).message \o "\"\n    }"
       \o (IF Len(issues) > 1 THEN ",\n" ELSE "\n")
       \o JsonIssueItems(Tail(issues))

\* json.dumps(report, ensure_ascii=False, indent=2)
JsonDumpsReport(report) ==
  "{\n  \"filename\": " \o JsonValue(report.filename)
  \o ",\n  \"issue_count\": " \o ToString(report.issue_count)
  \o ",\n  \"issues\": "
  \o (IF report.issues = <<>> THEN "[]"
      ELSE "[\n" \o JsonIssueItems(report.issues) \o "  ]")
  \o "\n}"

\* text.encode("utf-8"); the texts of the model are ASCII
Utf8(text) == text

\* hashlib.sha256(bytes).hexdigest(), as an injective tag of the bytes
Sha256Hex(bytes) == "sha256:" \o bytes

_sha256(text) == Sha256Hex(Utf8(text))

ARTIFACT_DIR == "/srv/artifacts"
artifact_path(name) == ARTIFACT_DIR \o "/" \o name

\* ---------------------------------------------------------------- engine
RECURSIVE LineIssues_From100(_, _)
LineIssues_From100(lines, idx) ==
  IF idx > Len(lines) THEN <<>>
  ELSE (IF Contains(lines[idx], <<"T", "O", "D", "O">>)
          THEN << [line |-> idx, message |-> "TODO found"] >> ELSE <<>>)
       \o (IF Len(lines[idx]) >= 100
          THEN << [line |-> idx, message |-> "Line longer than 100 chars"] >> ELSE <<>>)
       \o LineIssues_From100(lines, idx + 1)

\* lines 83-87: the per-line issues of lines[idx..], in order
RECURSIVE LineIssues(_, _)
LineIssues(lines, idx) ==
  IF idx > Len(lines) THEN <<>>
  ELSE (IF Contains(lines[idx], <<"T", "O", "D", "O">>)
          THEN << [line |-> idx, message |-> "TODO found"] >> ELSE <<>>)
       \o (IF Len(lines[idx]) > 100
          THEN << [line |-> idx, message |-> "Line longer than 100 chars"] >> ELSE <<>>)
       \o LineIssues(lines, idx + 1)

\* lines 81-90
CodeQualityIssues(code) ==
  LineIssues(splitlines(code), 1)
  \o (IF ~HasDocstringDef(code)
        THEN << [line |-> 1, message |-> "Functions may lack docstrings (heuristic)"] >>
        ELSE <<>>)

\* ", ".join(funcs)
RECURSIVE JoinNames(_)
JoinNames(funcs) ==
  IF funcs = <<>> THEN ""
  ELSE IF Len(funcs) = 1 THEN Head(funcs)
  ELSE Head(funcs) \o ", " \o JoinNames(Tail(funcs))

ReqCode(req) == DictGet(req.inputs, "code", JStr(<<>>))
ReqFilename(req) == DictGet(req.inputs, "filename", JStr(<<"u","n","k","n","o","w","n",".","p","y">>))

\* code.splitlines() and re.findall(..., code) need a str
RunTaskRaises(req) ==
  /\ req.capability \in {"code_quality", "summarize_code"}
  /\ ReqCode(req).type # "str"

Report_CountPerLine(req) ==
  LET issues == CodeQualityIssues(ReqCode(req).val)
  IN  [filename |-> ReqFilename(req),
       issue_count |-> Len(LineIssues(splitlines(ReqCode(req).val), 1)),
       issues |-> issues]

\* line 93
Report(req) ==
  LET issues == CodeQualityIssues(ReqCode(req).val)
  IN  [filename |-> ReqFilename(req), issue_count |-> Len(issues), issues |-> issues]

\* line 94
ReportJson(req) == JsonDumpsReport(Report(req))

ArtifactName(task_id) == task_id \o "_lint_report.json"

StableId_NoPrefix(task_id) == task_id

\* f"run_{task_id}"
StableId(task_id) == "run_" \o task_id

\* the TaskResult that run_task returns when it does not raise
run_task(task_id, req) ==
  LET base == [task_id |-> task_id, status |-> "SUCCEEDED",
               capability |-> req.capability,
               facts |-> <<>>, artifacts |-> <<>>, sources |-> <<>>,
               stable_id |-> StableId(task_id), message |-> ""]
  IN  IF req.capability = "code_quality" THEN
        LET issues == CodeQualityIssues(ReqCode(req).val)
            name == ArtifactName(task_id)
        IN  [base EXCEPT
              !.facts = [i \in 1..Len(issues) |-> [type |-> "lint_issue", data |-> issues[i]]],
              !.artifacts = << [name |-> name, path |-> artifact_path(name),
                                sha256 |-> _sha256(ReportJson(req))] >>,
              !.sources = << [type |-> "in_memory_code", ref |-> ReqFilename(req)] >>,
              !.message = ToString(Len(issues)) \o " potential issues found."]
      ELSE IF req.capability = "summarize_code" THEN
        LET found == FindDefs(ReqCode(req).val)
            funcs == [i \in 1..Len(found) |-> Str(found[i])]
        IN  [base EXCEPT
              !.facts = << [type |-> "functions", data |-> [names |-> funcs]] >>,
              !.sources = << [type |-> "in_memory_code", ref |-> ReqFilename(req)] >>,
              !.message = "This file defines: "
                           \o (IF funcs # <<>> THEN JoinNames(funcs) ELSE "no functions detected")]
      ELSE [base EXCEPT !.message = "Unknown capability"]

\* ------------------------------------------------------------------ state
VARIABLES
  registry,  \* the module-level list CAPABILITIES as the process holds it
  TASKS,     \* the task table: task id -> TaskStatus
  FILES,     \* the artifact directory: path -> content of the file
  pc,        \* per client: where its current request or poll loop stands
  req,       \* per client: the TaskRequest it posted (payload of agent.py)
  task_id,   \* per client: the id that its create_task generated
  response,  \* the HTTP response that the last step sent, if it sent one
  issued,    \* how many accepted create_task calls generated each id
  returned   \* the ids that a create_task has returned to its caller

vars == <<registry, TASKS, FILES, pc, req, task_id, response, issued, returned>>

Clients == 1..NumClients

\* f"t-{uuid4().hex[:8]}": one of the 16^8 tokens; NumIds of them here
TaskIdOf(i) == "t-0000000" \o ToString(i)
TaskIds == {TaskIdOf(i) : i \in 1..NumIds}

\* ids a client may poll
PollIds == TaskIds

CodeTodo == <<"x"," ","="," ","1"," "," ","#"," ","T","O","D","O"," ","f","i","x","\n">>
CodeDefs == <<"d","e","f"," ","f","o","o","(",")",":","\n"," ","p","\n",
              "d","e","f"," ","b","a","r","(",")",":","\n"," ","p","\n">>
FileA == <<"a",".","p","y">>

\* the request bodies that clients post
Requests ==
  { [capability |-> "code_quality", inputs |-> [code |-> JStr(CodeTodo), filename |-> JStr(FileA)]],
    [capability |-> "summarize_code", inputs |-> [code |-> JStr(CodeDefs), filename |-> JStr(FileA)]],
    [capability |-> "code_quality", inputs |-> [code |-> JInt(5), filename |-> JStr(FileA)]],
    [capability |-> "translate", inputs |-> [code |-> JStr(CodeTodo), filename |-> JStr(FileA)]] }

\* the number of accepted submissions so far
RECURSIVE SumOver(_, _)
SumOver(f, S) ==
  IF S = {} THEN 0
  ELSE LET x == CHOOSE y \in S : TRUE IN f[x] + SumOver(f, S \ {x})

NumSubmits == SumOver(issued, TaskIds)

NoResponse == [op |-> "none", code |-> 0]

NoRequest == [capability |-> "", inputs |-> [code |-> JStr(<<>>)]]

Init ==
  /\ registry = CAPABILITIES
  /\ TASKS = <<>>
  /\ FILES = <<>>
  /\ pc = [c \in Clients |-> "idle"]
  /\ req = [c \in Clients |-> NoRequest]
  /\ task_id = [c \in Clients |-> ""]
  /\ response = NoResponse
  /\ issued = [id \in TaskIds |-> 0]
  /\ returned = {}

\* ---------------------------------------------------------------- records
\* [c["name"] for c in CAPABILITIES]
CapabilityNames == [i \in 1..Len(registry) |-> registry[i].name]

InList(x, list) == \E i \in 1..Len(list) : list[i] = x

CapabilityKnown_Unchecked(r) == TRUE

CapabilityKnown_NonEmpty(r) == r.capability # ""

\* line 137: req.capability not in [c["name"] for c in CAPABILITIES]
CapabilityKnown(r) == InList(r.capability, CapabilityNames)

\* line 141
ScheduledStatus(id) == [task_id |-> id, status |-> "SCHEDULED", result |-> None]

SucceededStatus_Torn(id, result) == [task_id |-> id, status |-> "SUCCEEDED", result |-> None]

\* line 144
SucceededStatus(id, result) == [task_id |-> id, status |-> "SUCCEEDED", result |-> result]

StoreStatus_Replace(T, id, st) == (id :> st)

\* TASKS[task_id] = st
StoreStatus(T, id, st) == (id :> st) @@ T

task_status_Stale(T, id) ==
  IF DOMAIN T # {}
    THEN [op |-> "GET /tasks", arg |-> id, code |-> 200,
          body |-> T[IF id \in DOMAIN T THEN id ELSE CHOOSE k \in DOMAIN T : TRUE]]
    ELSE [op |-> "GET /tasks", arg |-> id, code |-> 404, body |-> [detail |-> "Task not found"]]

\* lines 149-152: TASKS.get(task_id), 404 when there is none
task_status(T, id) ==
  IF id \in DOMAIN T
    THEN [op |-> "GET /tasks", arg |-> id, code |-> 200, body |-> T[id]]
    ELSE [op |-> "GET /tasks", arg |-> id, code |-> 404, body |-> [detail |-> "Task not found"]]

\* ---------------------------------------------------------------- actions
\* POST /tasks, lines 137-141: validation, id generation, SCHEDULED record
CreateTaskBegin(c, r, id) ==
  /\ pc[c] = "idle"
  /\ IF ~CapabilityKnown(r)
       THEN /\ response' = [op |-> "POST /tasks", arg |-> r.capability, code |-> 400,
                            body |-> [detail |-> "Unknown capability"]]
            /\ UNCHANGED <<registry, TASKS, FILES, pc, req, task_id, issued, returned>>
       ELSE /\ NumSubmits < MaxSubmits
            /\ TASKS' = StoreStatus(TASKS, id, ScheduledStatus(id))
            /\ issued' = [issued EXCEPT ![id] = @ + 1]
            /\ pc' = [pc EXCEPT ![c] = "L143"]
            /\ req' = [req EXCEPT ![c] = r]
            /\ task_id' = [task_id EXCEPT ![c] = id]
            /\ response' = NoResponse
            /\ UNCHANGED <<registry, FILES, returned>>

\* run_task, lines 72-97: the heuristic; code_quality opens its report file
\* for writing, which creates or truncates it.  An exception leaves
\* create_task (nothing catches it) and the server answers 500.
RunTaskOpen(c) ==
  /\ pc[c] = "L143"
  /\ IF RunTaskRaises(req[c])
       THEN /\ response' = [op |-> "POST /tasks", arg |-> req[c].capability, code |-> 500,
                            body |-> [detail |-> "Internal Server Error"]]
            /\ pc' = [pc EXCEPT ![c] = "idle"]
            /\ req' = [req EXCEPT ![c] = NoRequest]
            /\ task_id' = [task_id EXCEPT ![c] = ""]
            /\ UNCHANGED <<registry, TASKS, FILES, issued, returned>>
       ELSE IF req[c].capability = "code_quality"
         THEN /\ FILES' = (artifact_path(ArtifactName(task_id[c])) :> "") @@ FILES
              /\ pc' = [pc EXCEPT ![c] = "L98"]
              /\ response' = NoResponse
              /\ UNCHANGED <<registry, TASKS, req, task_id, issued, returned>>
         ELSE /\ pc' = [pc EXCEPT ![c] = "L144"]
              /\ response' = NoResponse
              /\ UNCHANGED <<registry, TASKS, FILES, req, task_id, issued, returned>>

\* run_task, lines 98-128: the report is written and the file closed
RunTaskWrite(c) ==
  /\ pc[c] = "L98"
  /\ FILES' = (artifact_path(ArtifactName(task_id[c])) :> Utf8(ReportJson(req[c]))) @@ FILES
  /\ pc' = [pc EXCEPT ![c] = "L144"]
  /\ response' = NoResponse
  /\ UNCHANGED <<registry, TASKS, req, task_id, issued, returned>>

\* lines 144-145: the SUCCEEDED record replaces the stored one and the
\* handler returns; the client (agent.py line 24) keeps the id and enters its
\* poll loop
CreateTaskStore(c) ==
  /\ pc[c] = "L144"
  /\ TASKS' = StoreStatus(TASKS, task_id[c],
                          SucceededStatus(task_id[c], run_task(task_id[c], req[c])))
  /\ response' = [op |-> "POST /tasks", arg |-> req[c].capability, code |-> 200,
                  body |-> [task_id |-> task_id[c], status |-> "SCHEDULED"]]
  /\ returned' = returned \cup {task_id[c]}
  /\ pc' = [pc EXCEPT ![c] = "poll"]
  /\ UNCHANGED <<registry, FILES, req, task_id, issued>>

\* GET /tasks/{task_id} by a client that is not in a poll loop
TaskStatus(c, id) ==
  /\ pc[c] = "idle"
  /\ response' = task_status(TASKS, id)
  /\ UNCHANGED <<registry, TASKS, FILES, pc, req, task_id, issued, returned>>

\* agent.py lines 28-33: one round of the poll loop
AgentPoll(c) ==
  /\ pc[c] = "poll"
  /\ response' = task_status(TASKS, task_id[c])
  /\ IF response'.code = 200 /\ response'.body.status # "SUCCEEDED"
       THEN UNCHANGED <<pc, req, task_id>>
       ELSE /\ pc' = [pc EXCEPT ![c] = "idle"]
            /\ req' = [req EXCEPT ![c] = NoRequest]
            /\ task_id' = [task_id EXCEPT ![c] = ""]
  /\ UNCHANGED <<registry, TASKS, FILES, issued, returned>>

capabilities_Reversed(reg) == [i \in 1..Len(reg) |-> reg[Len(reg) + 1 - i]]

\* line 133: return CAPABILITIES
capabilities(reg) == reg

\* GET /capabilities
Capabilities(c) ==
  /\ pc[c] = "idle"
  /\ response' = [op |-> "GET /capabilities", arg |-> "", code |-> 200,
                  body |-> capabilities(registry)]
  /\ UNCHANGED <<registry, TASKS, FILES, pc, req, task_id, issued, returned>>

Next ==
  \E c \in Clients :
    \/ \E r \in Requests, id \in TaskIds : CreateTaskBegin(c, r, id)
    \/ RunTaskOpen(c)
    \/ RunTaskWrite(c)
    \/ CreateTaskStore(c)
    \/ \E id \in PollIds : TaskStatus(c, id)
    \/ AgentPoll(c)
    \/ Capabilities(c)

Spec == Init /\ [][Next]_vars

\* ------------------------------------------------- one request at a time
\* The heuristics on their own: the first submission of a process, taken
\* from line 141 on, for every request built from a few pieces of code.
Run(ch, n) == [i \in 1..n |-> ch]

FragTodoTwice == <<"T","O","D","O"," ","T","O","D","O","\n">>
FragLine100 == Run("a", 100) \o <<"\n">>
FragLongTodo == <<"T","O","D","O">> \o Run("a", 97) \o <<"\n">>
FragDef == <<"d","e","f"," ","f","(",")",":","\n">>
FragDefGap == <<"d","e","f"," ","g","(",")",":","\n","\n">>
FragDoc == <<" ","\"","\"","\"","\n">>
FragDefSplit == <<"d","e","f","\n","h","(","x",")",":","\n">>

Frags == {CodeTodo, FragTodoTwice, FragLine100, FragLongTodo,
          FragDef, FragDefGap, FragDoc, FragDefSplit}

\* the texts made of at most n pieces
RECURSIVE TextsUpTo(_)
TextsUpTo(n) ==
  IF n = 0 THEN {<<>>}
  ELSE LET shorter == TextsUpTo(n - 1)
       IN  shorter \cup {t \o f : t \in shorter, f \in Frags}

PureCodes == TextsUpTo(MaxFrags)

PureRequests ==
  {[capability |-> cap, inputs |-> [code |-> JStr(code), filename |-> JStr(FileA)]] :
     cap \in {"code_quality", "summarize_code"}, code \in PureCodes}
  \cup {[capability |-> cap, inputs |-> [code |-> JStr(code)]] :
     cap \in {"code_quality", "summarize_code"}, code \in PureCodes}

PureInit ==
  /\ registry = CAPABILITIES
  /\ TASKS = StoreStatus(<<>>, TaskIdOf(1), ScheduledStatus(TaskIdOf(1)))
  /\ FILES = <<>>
  /\ pc = [c \in Clients |-> IF c = 1 THEN "L143" ELSE "idle"]
  /\ \E r \in PureRequests : req = [c \in Clients |-> IF c = 1 THEN r ELSE NoRequest]
  /\ task_id = [c \in Clients |-> IF c = 1 THEN TaskIdOf(1) ELSE ""]
  /\ response = NoResponse
  /\ issued = [id \in TaskIds |-> IF id = TaskIdOf(1) THEN 1 ELSE 0]
  /\ returned = {}

PureNext ==
  \E c \in Clients :
    \/ RunTaskOpen(c)
    \/ RunTaskWrite(c)
    \/ CreateTaskStore(c)
    \/ AgentPoll(c)

PureSpec == PureInit /\ [][PureNext]_vars

\* ------------------------------------------------------------ properties
RegistryNames == {CAPABILITIES[i].name : i \in DOMAIN CAPABILITIES}
Issued == {id \in TaskIds : issued[id] > 0}
Running(id) == \E c \in Clients : pc[c] \in {"L143", "L98", "L144"} /\ task_id[c] = id

\* a TaskStatus as a reader may see it: SCHEDULED without a result, or
\* SUCCEEDED with a result that is itself SUCCEEDED
WholeRecord(st) ==
  \/ st.status = "SCHEDULED" /\ st.result = None
  \/ st.status = "SUCCEEDED" /\ st.result # None /\ st.result.status = "SUCCEEDED"

\* C1: a submit whose capability is not a name of the registry is answered
\* 400 "Unknown capability" and changes neither the task table nor the
\* artifact store, and issues no id.
C1_UnknownCapabilityRejected ==
  [][\A c \in Clients, r \in Requests, id \in TaskIds :
       (r.capability \notin RegistryNames /\ CreateTaskBegin(c, r, id))
         => /\ response'.code = 400
            /\ response'.body = [detail |-> "Unknown capability"]
            /\ UNCHANGED <<registry, TASKS, FILES, issued>>]_vars

C1_Witness ==
  /\ response.op = "POST /tasks" /\ response.code = 400
  /\ response.arg \notin RegistryNames
  /\ DOMAIN TASKS # {}

\* C2: whatever the interleaving of submits and reads, every record that
\* get_status returns is whole: SCHEDULED with no result, or SUCCEEDED with a
\* SUCCEEDED result.
C2_NoTornRecord ==
  /\ \A id \in PollIds :
       task_status(TASKS, id).code = 200 => WholeRecord(task_status(TASKS, id).body)
  /\ (response.op = "GET /tasks" /\ response.code = 200) => WholeRecord(response.body)

C2_Witness ==
  /\ response.op = "GET /tasks" /\ response.code = 200
  /\ response.body.status = "SCHEDULED"
  /\ Running(response.arg)

\* C3: no two accepted submissions are given the same task id.
C3_UniqueTaskIds ==
  \A id \in TaskIds : issued[id] <= 1

\* C4: once a submit has returned an id, get_status of that id answers
\* SUCCEEDED with a result, at every later point.
C4_ReturnedStaysSucceeded ==
  \A id \in returned :
    /\ task_status(TASKS, id).code = 200
    /\ task_status(TASKS, id).body.status = "SUCCEEDED"
    /\ task_status(TASKS, id).body.result # None

\* C5: get_status of an id that no submit ever issued answers not-found and
\* leaves the task table and the artifact store as they were.
C5_UnissuedIsNotFound ==
  [][\A c \in Clients, id \in PollIds :
       (id \notin Issued /\ TaskStatus(c, id))
         => /\ response'.code = 404
            /\ response'.body = [detail |-> "Task not found"]
            /\ UNCHANGED <<registry, TASKS, FILES>>]_vars

C5_Witness ==
  /\ response.op = "GET /tasks" /\ response.code = 404
  /\ response.arg \notin Issued
  /\ DOMAIN TASKS # {}

\* C6: once no create_task is running for an id any more, the stored record
\* of that id is terminal (SUCCEEDED or FAILED): a run that failed has left
\* FAILED behind and nothing stays SCHEDULED.
C6_FailedRunEndsTerminal ==
  \A id \in DOMAIN TASKS :
    ~Running(id) => TASKS[id].status \in {"SUCCEEDED", "FAILED"}

\* C7: a record is created as SCHEDULED, and once a key holds a SUCCEEDED
\* record that record never changes again.
C7_Lifecycle ==
  [][\A id \in TaskIds :
       /\ (id \notin DOMAIN TASKS /\ id \in DOMAIN TASKS')
            => TASKS'[id] = ScheduledStatus(id)
       /\ (id \in DOMAIN TASKS /\ TASKS[id].status = "SUCCEEDED")
            => (id \in DOMAIN TASKS' /\ TASKS'[id] = TASKS[id])]_vars

\* C8: the keys of the task table only grow, so an id that get_status once
\* answered with a record is never answered not-found later.
C8_NeverDeleted ==
  [][/\ DOMAIN TASKS \subseteq DOMAIN TASKS'
     /\ \A id \in PollIds :
          task_status(TASKS, id).code = 200 => task_status(TASKS', id).code = 200]_vars

C8_Witness ==
  /\ Cardinality(DOMAIN TASKS) >= 2
  /\ response.op = "GET /tasks" /\ response.code = 200

\* C9: every stored result has stable_id = "run_" + task_id, and its task_id
\* is the task_id of its record and the key under which the record is stored.
C9_StableId ==
  \A id \in DOMAIN TASKS :
    TASKS[id].result # None
      => /\ TASKS[id].result.stable_id = "run_" \o TASKS[id].result.task_id
         /\ TASKS[id].result.task_id = TASKS[id].task_id
         /\ TASKS[id].result.task_id = id

C9_Witness ==
  \E id \in DOMAIN TASKS :
    TASKS[id].result # None /\ TASKS[id].result.stable_id = "run_" \o id

\* C10: for every stored SUCCEEDED result of a code_quality task the artifact
\* file exists and the recorded sha256 is the digest of the file's content.
C10_ArtifactDigest ==
  \A id \in DOMAIN TASKS :
    (TASKS[id].status = "SUCCEEDED" /\ TASKS[id].result.capability = "code_quality")
      => /\ Len(TASKS[id].result.artifacts) = 1
         /\ \A i \in DOMAIN TASKS[id].result.artifacts :
              LET a == TASKS[id].result.artifacts[i]
              IN  /\ a.path \in DOMAIN FILES
                  /\ a.sha256 = Sha256Hex(FILES[a.path])

\* ------------------------------------------- properties of the heuristics
\* client c has its result: its create_task stored it and returned
HasResult(c, cap) == pc[c] = "poll" /\ req[c].capability = cap
ResultOf(c) == TASKS[task_id[c]].result
CodeOf(c) == req[c].inputs.code.val

DocstringMessage == "Functions may lack docstrings (heuristic)"
TodoMessage == "TODO found"
LongMessage == "Line longer than 100 chars"

\* C11: for a code_quality submission the report written to the artifact
\* has issue_count = number of issues = number of facts, its i-th issue is
\* the data of the i-th fact, and the message is
\* "{issue_count} potential issues found.".
C11_ReportCounts ==
  \A c \in Clients :
    HasResult(c, "code_quality")
      => LET res == ResultOf(c)
             expected == [filename |-> res.sources[1].ref,
                          issue_count |-> Len(res.facts),
                          issues |-> [i \in 1..Len(res.facts) |-> res.facts[i].data]]
         IN  /\ \A i \in DOMAIN res.facts : res.facts[i].type = "lint_issue"
             /\ FILES[res.artifacts[1].path] = JsonDumpsReport(expected)
             /\ res.message = ToString(Len(res.facts)) \o " potential issues found."

C11_Witness ==
  \E c \in Clients :
    /\ HasResult(c, "code_quality")
    /\ Len(ResultOf(c).facts) = 4
    /\ ResultOf(c).message = "4 potential issues found."

\* TODO occurs in the line
HasTodo(line) ==
  \E k \in 1..(Len(line) - 3) :
    line[k] = "T" /\ line[k + 1] = "O" /\ line[k + 2] = "D" /\ line[k + 3] = "O"

\* how many facts name this line with this message
CountFacts(facts, n, msg) ==
  Cardinality({j \in DOMAIN facts : facts[j].data.line = n /\ facts[j].data.message = msg})

\* C12: the per-line facts of code_quality: for each line, in ascending
\* order of the 1-based line number, exactly one "TODO found" fact if the line
\* contains TODO, then exactly one "Line longer than 100 chars" fact if the
\* line has more than 100 characters; nothing else.
C12_PerLineFacts ==
  \A c \in Clients :
    HasResult(c, "code_quality")
      => LET facts == ResultOf(c).facts
             lines == splitlines(CodeOf(c))
             perLine == {j \in DOMAIN facts : facts[j].data.message # DocstringMessage}
         IN  /\ \A n \in DOMAIN lines :
                  /\ CountFacts(facts, n, TodoMessage) = IF HasTodo(lines[n]) THEN 1 ELSE 0
                  /\ CountFacts(facts, n, LongMessage) = IF Len(lines[n]) > 100 THEN 1 ELSE 0
             /\ \A j \in perLine :
                  /\ facts[j].data.line \in DOMAIN lines
                  /\ facts[j].data.message \in {TodoMessage, LongMessage}
             /\ \A j, k \in perLine :
                  j < k => \/ facts[j].data.line < facts[k].data.line
                           \/ /\ facts[j].data.line = facts[k].data.line
                              /\ facts[j].data.message = TodoMessage
                              /\ facts[k].data.message = LongMessage

C12_Witness ==
  \E c \in Clients :
    /\ HasResult(c, "code_quality")
    /\ LET lines == splitlines(CodeOf(c))
       IN  /\ Len(lines) = 2
           /\ Len(lines[1]) = 100
           /\ Len(lines[2]) = 101 /\ HasTodo(lines[2])
    /\ CountFacts(ResultOf(c).facts, 2, TodoMessage) = 1
    /\ CountFacts(ResultOf(c).facts, 2, LongMessage) = 1

\* ---- the two patterns, read off the text position by position
\* whitespace that stays on the line, and whitespace as \s has it
LineBlanks == SpaceChars \ {"\n"}
AnySpace == SpaceChars

\* the first position from p on that holds no character of chars
SkipRun(code, p, chars) ==
  CHOOSE q \in p..(Len(code) + 1) :
    /\ q = Len(code) + 1 \/ code[q] \notin chars
    /\ \A k \in p..(q - 1) : code[k] \in chars

LitAt(code, p, lit) ==
  p + Len(lit) - 1 <= Len(code) /\ SubSeq(code, p, p + Len(lit) - 1) = lit

AtLineStart(code, a) == a = 1 \/ code[a - 1] = "\n"

\* a def header that starts at line start a and whose "(" is at position d:
\* blanks, "def", blanks, a name, "("
DefHeaderAt(code, a, d, ws) ==
  LET b == SkipRun(code, a, ws)
      c == SkipRun(code, b + 3, ws)
  IN  /\ LitAt(code, b, <<"d", "e", "f">>)
      /\ c > b + 3
      /\ SkipRun(code, c, WordChars) > c
      /\ SkipRun(code, c, WordChars) = d
      /\ LitAt(code, d, <<"(">>)

\* the positions of the "(" of the def headers
DefEnds(code, ws) ==
  {d \in 1..Len(code) :
     \E a \in 1..d : AtLineStart(code, a) /\ DefHeaderAt(code, a, d, ws)}

\* some def header ends its line with "):" and the text goes on with blanks
\* and a triple quote
DefThenDocstring(code, ws) ==
  \E d \in DefEnds(code, ws) :
    \E e \in (d + 1)..Len(code) :
      /\ \A k \in (d + 1)..(e - 1) : code[k] # "\n"
      /\ LitAt(code, e, <<")", ":", "\n">>)
      /\ SkipRun(code, e + 3, ws) > e + 3
      /\ LitAt(code, SkipRun(code, e + 3, ws), <<"\"", "\"", "\"">>)

DocstringFacts(facts) == {j \in DOMAIN facts : facts[j].data.message = DocstringMessage}

\* exactly one docstring fact, the last one, on line 1, when there is no def
\* with a docstring; none when there is one
DocstringFactRule(c, ws) ==
  LET facts == ResultOf(c).facts
  IN  /\ Cardinality(DocstringFacts(facts))
           = IF DefThenDocstring(CodeOf(c), ws) THEN 0 ELSE 1
      /\ \A j \in DocstringFacts(facts) :
           j = Len(facts) /\ facts[j].data.line = 1 /\ facts[j].type = "lint_issue"
      /\ CodeOf(c) = CodeTodo
           => Len(facts) = 2 /\ ResultOf(c).message = "2 potential issues found."

Kth(S, k) == CHOOSE x \in S : Cardinality({y \in S : y <= x}) = k

\* the word that ends just before position d
WordBefore(code, d) ==
  LET from == CHOOSE b \in 1..(d - 1) :
                /\ \A k \in b..(d - 1) : code[k] \in WordChars
                /\ b = 1 \/ code[b - 1] \notin WordChars
  IN  SubSeq(code, from, d - 1)

RECURSIVE Flatten(_)
Flatten(text) ==
  IF text = <<>> THEN "" ELSE Flatten(SubSeq(text, 1, Len(text) - 1)) \o text[Len(text)]

DefNames(code, ws) ==
  [k \in 1..Cardinality(DefEnds(code, ws)) |->
     Flatten(WordBefore(code, Kth(DefEnds(code, ws), k)))]

RECURSIVE CommaList(_)
CommaList(names) ==
  IF Len(names) = 1 THEN names[1]
  ELSE CommaList(SubSeq(names, 1, Len(names) - 1)) \o ", " \o names[Len(names)]

\* one functions fact with the names of the def headers in order, no
\* artifact, and the message made of the names
SummaryRule(c, ws) ==
  LET res == ResultOf(c)
      names == DefNames(CodeOf(c), ws)
  IN  /\ Len(res.facts) = 1
      /\ res.facts[1].type = "functions"
      /\ res.facts[1].data = [names |-> names]
      /\ res.artifacts = <<>>
      /\ FILES = <<>>
      /\ res.message = "This file defines: "
                         \o (IF names = <<>> THEN "no functions detected" ELSE CommaList(names))

\* C14 (as claimed): summarize_code gives exactly one functions fact whose
\* names are the identifiers of all def lines (blanks, "def", blanks, name,
\* "(" on one line) in order, duplicates kept, and no artifact; the message
\* is "This file defines: " and the names joined by ", ", or "no functions
\* detected".
C14_Summary_Claimed ==
  \A c \in Clients : HasResult(c, "summarize_code") => SummaryRule(c, LineBlanks)

\* C14 (amended): the same, where the whitespace before "def" and between
\* "def" and the name is \s, which also matches newlines: the name may stand
\* on the line after "def".
C14_Summary ==
  \A c \in Clients : HasResult(c, "summarize_code") => SummaryRule(c, AnySpace)

C14_Witness ==
  \E c \in Clients :
    /\ HasResult(c, "summarize_code")
    /\ ResultOf(c).facts[1].data.names = <<"f", "f">>
    /\ ResultOf(c).message = "This file defines: f, f"

\* ------------------------------------------------ properties of the server
\* C15: two clients that submitted the identical request hold two distinct
\* task ids, and the stored results have the same facts and the same message.
C15_IdenticalRequests ==
  \A c1, c2 \in Clients :
    (c1 # c2 /\ pc[c1] = "poll" /\ pc[c2] = "poll" /\ req[c1] = req[c2])
      => /\ task_id[c1] # task_id[c2]
         /\ ResultOf(c1).facts = ResultOf(c2).facts
         /\ ResultOf(c1).message = ResultOf(c2).message

\* C16: an artifact file is written by one submission only and never
\* rewritten: run_task opens a path that does not exist yet, a written file
\* keeps its content, the file is complete when its SUCCEEDED record is
\* stored, and summarize_code and rejected submissions write nothing.
C16_WriteOnce ==
  [][/\ \A path \in DOMAIN FILES :
          path \in DOMAIN FILES' /\ (FILES[path] # "" => FILES'[path] = FILES[path])
     /\ \A c \in Clients :
          /\ (RunTaskOpen(c) /\ FILES' # FILES)
               => /\ req[c].capability = "code_quality"
                  /\ artifact_path(ArtifactName(task_id[c])) \notin DOMAIN FILES
          /\ (CreateTaskStore(c) /\ req[c].capability = "code_quality")
               => /\ artifact_path(ArtifactName(task_id[c])) \in DOMAIN FILES
                  /\ FILES[artifact_path(ArtifactName(task_id[c]))] # ""
          /\ \A r \in Requests, id \in TaskIds :
               CreateTaskBegin(c, r, id) => FILES' = FILES]_vars

\* C17: every stored result has a capability of the registry, and none is
\* the fallback result (message "Unknown capability", no facts, no artifacts).
C17_FallbackUnreachable ==
  \A id \in DOMAIN TASKS :
    TASKS[id].result # None
      => /\ TASKS[id].result.capability \in RegistryNames
         /\ ~ /\ TASKS[id].result.message = "Unknown capability"
              /\ TASKS[id].result.facts = <<>>
              /\ TASKS[id].result.artifacts = <<>>

C17_Witness ==
  /\ response.op = "POST /tasks" /\ response.code = 400
  /\ \E id \in DOMAIN TASKS : TASKS[id].result # None

\* C18: the registry never changes: in every state it is the list the
\* process started with, GET /capabilities answers code_quality and then
\* summarize_code, and the accepted names are these two.
C18_RegistryFixed ==
  /\ registry = CAPABILITIES
  /\ {CapabilityNames[i] : i \in DOMAIN CapabilityNames} = {"code_quality", "summarize_code"}
  /\ response.op = "GET /capabilities"
       => /\ response.code = 200
          /\ Len(response.body) = 2
          /\ response.body[1].name = "code_quality"
          /\ response.body[2].name = "summarize_code"
          /\ response.body = CAPABILITIES

C18_Witness ==
  /\ response.op = "GET /capabilities"
  /\ \E id \in DOMAIN TASKS : TASKS[id].status = "SUCCEEDED"

====
